---- MODULE Spec2Model ----
(***************************************************************************)
(* createSharedState (src/_hooks/libs/state.utils.ts): a value box with a  *)
(* list of change observers, the imperative accessors get / set / update / *)
(* subscribe / unsubscribe and the two React bindings use / usePick, and   *)
(* the counter demo of src/_hooks/index.js.                                *)
(***************************************************************************)
EXTENDS Integers, Sequences, FiniteSets, TLC

----------------------------------------------------------------------------
(* Bounds of the model.                                                    *)

\* largest number a caller passes to set, and the cap of the demo's counter
MaxNum == 1
\* objects ever allocated (the initial object and the results of update)
MaxHeap == 2
\* unsubscribe closures returned by subscribe that the caller keeps
MaxHandles == 2
\* the same, where the operations on the observer list are studied
MaxEntries == 3

----------------------------------------------------------------------------
(* JavaScript values: numbers (with NaN and the two zeros), undefined and  *)
(* references to objects of the heap.  n is the number, or the address.    *)

Num(i) == [t |-> "num", n |-> i]
NegZero == [t |-> "nzero", n |-> 0]
NaN == [t |-> "nan", n |-> 0]
Undef == [t |-> "undef", n |-> 0]
Null == [t |-> "null", n |-> 0]
PosInf == [t |-> "inf", n |-> 1]
NegInf == [t |-> "inf", n |-> -1]
Ref(a) == [t |-> "ref", n |-> a]

IsZero(x) == x = Num(0) \/ x = NegZero

\* x === y
StrictEq(x, y) ==
    IF x.t = "nan" \/ y.t = "nan" THEN FALSE
    ELSE IF IsZero(x) /\ IsZero(y) THEN TRUE
    ELSE x = y

\* 1 / x, for the two zeros (the only operands is() divides by)
Recip(x) == IF x = NegZero THEN NegInf ELSE PosInf

\* is without the test that tells the two zeros apart
IsNoZeroTest(x, y) ==
    \/ StrictEq(x, y)
    \/ (~StrictEq(x, x) /\ ~StrictEq(y, y))

\* is(x, y)
Is(x, y) ==
    \/ (StrictEq(x, y) /\ (~StrictEq(x, Num(0)) \/ StrictEq(Recip(x), Recip(y))))
    \/ (~StrictEq(x, x) /\ ~StrictEq(y, y))

\* a comparison with === in place of Object.is
objectIsStrict(x, y) == StrictEq(x, y)

\* objectIs: Object.is where the engine has it, else is(); both compute SameValue
objectIs(x, y) == Is(x, y)

\* SameValue of ECMAScript on this representation (the reference relation the
\* properties are stated with)
SameValue(x, y) == x = y

\* x + 1 as the demo's click handler computes it on a number
AddOne(x) ==
    IF x.t = "num" THEN Num(x.n + 1)
    ELSE IF x.t = "nzero" THEN Num(1)
    ELSE NaN

----------------------------------------------------------------------------
(* Objects: functions from a set of keys to values; the heap is the        *)
(* sequence of the objects allocated so far, an address is an index.       *)

Keys == {"a", "b"}
EmptyObj == [k \in {} |-> Undef]
ObjAB(x, y) == [k \in Keys |-> IF k = "a" THEN x ELSE y]
ObjOf(key, x) == [k \in {key} |-> x]

\* An array has the own property length, which is not enumerable: it is
\* kept under this key, and a property under the key "length" is enumerable.
HiddenLength == "#length"
\* [x]
ArrayOf(x) == [k \in {"0", HiddenLength} |-> IF k = "0" THEN x ELSE Num(1)]

\* typeof x === 'object'
TypeofObject(x) == x.t \in {"ref", "null"}

\* Object.keys(o): the own enumerable keys
ObjectKeys(o) == (DOMAIN o) \ {HiddenLength}

\* Object.prototype.hasOwnProperty.call(o, k)
HasOwn(o, k) == k \in DOMAIN o \/ (k = "length" /\ HiddenLength \in DOMAIN o)

\* o[k]
Prop(o, k) ==
    IF k \in DOMAIN o THEN o[k]
    ELSE IF HasOwn(o, k) THEN o[HiddenLength]
    ELSE Undef

\* own enumerable properties that a spread copies: none for a primitive
Spread(h, x) ==
    IF x.t = "ref" THEN [k \in ObjectKeys(h[x.n]) |-> h[x.n][k]] ELSE EmptyObj

\* {...input, ...pre}: the spreads in the wrong order
MergeReversed(pre, input) ==
    [k \in (DOMAIN pre) \cup (DOMAIN input) |->
        IF k \in DOMAIN pre THEN pre[k] ELSE input[k]]

\* {...pre, ...input}
Merge(pre, input) ==
    [k \in (DOMAIN pre) \cup (DOMAIN input) |->
        IF k \in DOMAIN input THEN input[k] ELSE pre[k]]

\* shallowEqual(objA, objB)
shallowEqual(h, objA, objB) ==
    IF Is(objA, objB) THEN TRUE
    ELSE IF \/ ~TypeofObject(objA) \/ objA = Null
            \/ ~TypeofObject(objB) \/ objB = Null THEN FALSE
    ELSE LET A == h[objA.n]
             B == h[objB.n]
             keysA == ObjectKeys(A)
             keysB == ObjectKeys(B)
         IN IF Cardinality(keysA) # Cardinality(keysB) THEN FALSE
            ELSE \A k \in keysA : HasOwn(B, k) /\ Is(Prop(A, k), Prop(B, k))

----------------------------------------------------------------------------
(* Observers.  A callback is named by its kind and an identifier: the      *)
(* callbacks a caller subscribes ("plain" only records its call,           *)
(* "unsubSelf" unsubscribes itself when called, "setter" calls set(0) when *)
(* called, "reader" calls get() when called) and the closures that the     *)
(* mount effects of use and usePick subscribe for a component instance.    *)

Cb(k, id) == [k |-> k, id |-> id]
NoOne == Cb("none", "")
Plain == {Cb("plain", "p1"), Cb("plain", "p2")}
Reentrant == {Cb("unsubSelf", "r1")}
Setters == {Cb("setter", "s1")}
Readers == {Cb("reader", "g1")}
Comps == {"c1", "c2"}
Pickers == {"a", "self"}
\* the values of the one element of usePick's deps argument
Deps == {"d0", "d1"}
\* c1 calls use() like A and B of index.js, c2 calls usePick(picker)
KindOf(c) == IF c = "c1" THEN "use" ELSE "pick"

\* what one operation did: the set calls it made and the callbacks it invoked
Event(ev, who, prev, next) == [ev |-> ev, who |-> who, prev |-> prev, next |-> next]

VARIABLES
    state,        \* let state
    heap,         \* the objects allocated so far
    subscribers,  \* const subscribers
    comps,        \* the component instances that call use / usePick
    handles,      \* the closures returned by subscribe that the caller holds
    calls,        \* history: the last operation and what it did, in order
    track,        \* history: progress of subscribe(cb); its un(); set(y)
    other         \* state and subscribers of a second createSharedState call

vars == <<state, heap, subscribers, comps, handles, calls, track, other>>

----------------------------------------------------------------------------
(* The component instances.  An instance is rendered once ("rendered": its *)
(* mount effects are pending), mounted when they have run, re-rendered     *)
(* while mounted, then removed ("unmounting": its effect cleanups are      *)
(* pending) and gone when they have run.                                   *)

NoComp ==
    [kind |-> "none", phase |-> "new", dirty |-> FALSE, shown |-> Undef,
     isMounted |-> FALSE, picker |-> "", picked |-> Undef, old |-> Undef,
     queued |-> FALSE, queue |-> Undef, props |-> "", deps |-> "",
     effect |-> FALSE]

\* the argument of set: a literal, or an updater function
Lit(v) == [fn |-> FALSE, f |-> "", v |-> v, input |-> EmptyObj]
Fn(f) == [fn |-> TRUE, f |-> f, v |-> Undef, input |-> EmptyObj]
\* (pre) => ({...pre, ...input})
MergeFn(input) == [fn |-> TRUE, f |-> "merge", v |-> Undef, input |-> input]

\* the closure variables of one createSharedState(initialState) call
Container(initialState) == [state |-> initialState, subscribers |-> <<>>]

\* The state an operation of the container reads and writes.
Machine ==
    [state |-> state, heap |-> heap, subscribers |-> subscribers,
     comps |-> comps, calls |-> <<>>]

\* ... at the start of operation ev of who
Start(ev, who) == [Machine EXCEPT !.calls = <<Event(ev, who, Undef, Undef)>>]

Log(m, e) == [m EXCEPT !.calls = Append(@, e)]

\* subscribers.lastIndexOf(subscriber)
LastIndexOf(s, x) ==
    IF \E i \in 1..Len(s) : s[i] = x
    THEN CHOOSE i \in 1..Len(s) : s[i] = x /\ \A j \in (i + 1)..Len(s) : s[j] # x
    ELSE 0

\* subscribers.indexOf(subscriber): 0 stands for -1
IndexOf(s, x) ==
    IF \E i \in 1..Len(s) : s[i] = x
    THEN CHOOSE i \in 1..Len(s) : s[i] = x /\ \A j \in 1..(i - 1) : s[j] # x
    ELSE 0

\* subscribers.splice(index, 1)
Splice(s, i) == SubSeq(s, 1, i - 1) \o SubSeq(s, i + 1, Len(s))

\* subscribers.push(subscriber)
subscribe(m, cb) == [m EXCEPT !.subscribers = Append(@, cb)]

\* index > 0 in place of index > -1: the first entry is never removed
unsubscribeNotFirst(m, cb) ==
    LET index == IndexOf(m.subscribers, cb)
    IN IF index > 1 THEN [m EXCEPT !.subscribers = Splice(@, index)] ELSE m

unsubscribe(m, cb) ==
    LET index == IndexOf(m.subscribers, cb)
    IN IF index > 0 THEN [m EXCEPT !.subscribers = Splice(@, index)] ELSE m

\* useForceUpdate's dispatch: the reducer returns a new object each time, so
\* React schedules a re-render of the instance while it is in the tree and
\* ignores the update of an instance that was removed
forceUpdate(m, c) ==
    LET m1 == Log(m, Event("force", Cb("use", c), Undef, Undef))
    IN IF m.comps[c].phase \in {"rendered", "mounted"}
       THEN [m1 EXCEPT !.comps[c].dirty = TRUE]
       ELSE m1

\* the observer that use's effect subscribes
useObserver(m, c) ==
    IF ~m.comps[c].isMounted THEN m ELSE forceUpdate(m, c)

\* ref.current.picker(state)
Pick(h, picker, s) ==
    IF picker = "self" THEN s
    ELSE IF s.t = "ref" /\ picker \in DOMAIN h[s.n] THEN h[s.n][picker]
    ELSE Undef

\* setPickedState(() => pickedNew): queued on the instance's state hook
setPickedState(m, c, v) ==
    LET m1 == Log(m, Event("setPicked", Cb("pick", c), Undef, v))
    IN IF m.comps[c].phase \in {"rendered", "mounted"}
       THEN [m1 EXCEPT !.comps[c].dirty = TRUE,
                       !.comps[c].queued = TRUE,
                       !.comps[c].queue = v]
       ELSE m1

\* usePick's sub
sub(m, c) ==
    LET pickedOld == m.comps[c].old
        pickedNew == Pick(m.heap, m.comps[c].picker, m.state)
    IN IF ~shallowEqual(m.heap, pickedOld, pickedNew)
       THEN setPickedState(m, c, pickedNew)
       ELSE m

\* get()
get(m) == m.state

RECURSIVE set(_, _)

\* cb(prevState, state) for one entry of the list
Invoke(m, cb, prevState) ==
    LET m1 == Log(m, Event("call", cb, prevState, m.state))
    IN CASE cb.k = "plain" -> m1
         [] cb.k = "unsubSelf" -> unsubscribe(m1, cb)
         [] cb.k = "setter" -> set(m1, Lit(Num(0)))
         [] cb.k = "reader" -> Log(m1, Event("get", cb, Undef, get(m1)))
         [] cb.k = "use" -> useObserver(m1, cb.id)
         [] cb.k = "pick" -> sub(m1, cb.id)

\* a loop that stops one entry early
RECURSIVE ForEachShort(_, _, _, _)
ForEachShort(m, k, len, prevState) ==
    IF k >= len THEN m
    ELSE IF k > Len(m.subscribers) THEN ForEachShort(m, k + 1, len, prevState)
    ELSE ForEachShort(Invoke(m, m.subscribers[k], prevState), k + 1, len, prevState)

\* subscribers.forEach(...): the length is read once, the entries are read
\* live, an index past the end of the (shrunk) list is skipped
RECURSIVE ForEach(_, _, _, _)
ForEach(m, k, len, prevState) ==
    IF k > len THEN m
    ELSE IF k > Len(m.subscribers) THEN ForEach(m, k + 1, len, prevState)
    ELSE ForEach(Invoke(m, m.subscribers[k], prevState), k + 1, len, prevState)

\* next(prevState) for an updater function: the result, and the heap after it
ApplyFn(h, arg, prevState) ==
    CASE arg.f = "id" -> [v |-> prevState, heap |-> h]
      [] arg.f = "inc" -> [v |-> AddOne(prevState), heap |-> h]
      [] arg.f = "merge" ->
            [v |-> Ref(Len(h) + 1),
             heap |-> Append(h, Merge(Spread(h, prevState), arg.input))]

\* a set that invokes the observers before it stores the candidate
setNotifiesFirst(m, next) ==
    LET prevState == m.state
        r == IF next.fn THEN ApplyFn(m.heap, next, prevState)
             ELSE [v |-> next.v, heap |-> m.heap]
        nextState == r.v
        m1 == Log([m EXCEPT !.heap = r.heap],
                  Event("set", Cb(IF next.fn THEN "updater" ELSE "literal", next.f),
                        prevState, nextState))
    IN IF objectIs(m1.state, nextState) THEN m1
       ELSE [ForEach(m1, 1, Len(m1.subscribers), prevState) EXCEPT
                !.state = nextState]

\* a set that compares state with its argument, not with the candidate
setRawCompare(m, next) ==
    LET prevState == m.state
        r == IF next.fn THEN ApplyFn(m.heap, next, prevState)
             ELSE [v |-> next.v, heap |-> m.heap]
        nextState == r.v
        m1 == Log([m EXCEPT !.heap = r.heap],
                  Event("set", Cb(IF next.fn THEN "updater" ELSE "literal", next.f),
                        prevState, nextState))
    IN IF ~next.fn /\ objectIs(m1.state, next.v) THEN m1
       ELSE ForEach([m1 EXCEPT !.state = nextState], 1,
                    Len(m1.subscribers), prevState)

set(m, next) ==
    LET prevState == m.state
        r == IF next.fn THEN ApplyFn(m.heap, next, prevState)
             ELSE [v |-> next.v, heap |-> m.heap]
        nextState == r.v
        m1 == Log([m EXCEPT !.heap = r.heap],
                  Event("set", Cb(IF next.fn THEN "updater" ELSE "literal", next.f),
                        prevState, nextState))
    IN IF objectIs(m1.state, nextState) THEN m1
       ELSE ForEach([m1 EXCEPT !.state = nextState], 1,
                    Len(m1.subscribers), prevState)

update(m, input) == set(m, MergeFn(input))

----------------------------------------------------------------------------
(* History of the last operation: calls starts with the operation itself. *)

Idle == [stage |-> 0, cb |-> NoOne, h |-> 0, base |-> 0]

\* number of entries of s equal to x
Count(s, x) == Cardinality({i \in 1..Len(s) : s[i] = x})

\* the result m of a container operation becomes the state
Commit(m) ==
    /\ state' = m.state
    /\ heap' = m.heap
    /\ subscribers' = m.subscribers
    /\ comps' = m.comps
    /\ calls' = m.calls

\* a set call made after subscribe(cb) and its un() completes the scenario
\* when it changes the value
TrackSet(m) ==
    track' = IF track.stage = 2 /\ m.state # state
             THEN [track EXCEPT !.stage = 3]
             ELSE Idle

Literals == {Num(i) : i \in 0..MaxNum} \cup {NegZero, NaN}
Updaters == {"id", "inc"}
Partials ==
    {EmptyObj, ObjOf("b", Num(2)), ObjOf("b", Num(0)), ObjOf("a", Num(0)),
     ObjOf("c", NaN)}
InitialObject == ObjAB(Num(1), Num(2))
InitialValues == Literals \cup {Ref(1)}

\* T is a number type or an object type: a caller passes values of the type
\* the container holds
SameType(x, y) == (x.t = "ref") = (y.t = "ref")

\* numbers stay within the bound
InRange(v) == v.t = "num" => v.n <= MaxNum

----------------------------------------------------------------------------
(* createSharedState(initialState)                                         *)

InitWith(values) ==
    /\ state \in values
    /\ heap = <<InitialObject>>
    /\ subscribers = <<>>
    /\ comps = [c \in Comps |-> NoComp]
    /\ handles = <<>>
    /\ calls = <<Event("create", NoOne, Undef, state)>>
    /\ track = Idle
    /\ other = Container(Num(0))

Init == InitWith(InitialValues)

(* set(next) by a caller, with a literal or an updater                     *)
SetArgs ==
    {Lit(v) : v \in {x \in Literals \cup {Ref(a) : a \in 1..Len(heap)} :
                        SameType(x, state)}}
        \cup {Fn(f) : f \in {g \in Updaters : g = "inc" => state.t # "ref"}}

\* the values the demo and its like set: counts and objects
SetArgsUI == {arg \in SetArgs : ~arg.fn /\ arg.v.t \in {"num", "ref"}}

Set(arg) ==
    LET m == set(Machine, arg)
    IN /\ InRange(m.state)
       /\ Commit(m)
       /\ TrackSet(m)
       /\ UNCHANGED <<handles, other>>

(* update(input) by a caller                                               *)
Update(input) ==
    LET m == update(Start("update", NoOne), input)
    IN /\ Len(heap) < MaxHeap
       /\ state.t = "ref"
       /\ Commit(m)
       /\ TrackSet(m)
       /\ UNCHANGED <<handles, other>>

(* un = subscribe(cb) by a caller, who keeps un                            *)
Subscribe(cb, max) ==
    LET m == subscribe(Start("subscribe", cb), cb)
    IN /\ Len(handles) < max
       /\ Commit(m)
       /\ handles' = Append(handles, [cb |-> cb, used |-> FALSE])
       /\ track' = [stage |-> 1, cb |-> cb, h |-> Len(handles) + 1,
                    base |-> Count(subscribers, cb)]
       /\ UNCHANGED other

(* unsubscribe(cb) by a caller                                             *)
Unsubscribe(cb) ==
    LET m == unsubscribe(Start("unsubscribe", cb), cb)
    IN /\ Commit(m)
       /\ track' = Idle
       /\ UNCHANGED <<handles, other>>

(* un(): the closure () => unsubscribe(subscriber) that subscribe returned *)
CallUn(h) ==
    LET m == unsubscribe(Start(IF handles[h].used THEN "unAgain" ELSE "un",
                                  handles[h].cb), handles[h].cb)
    IN /\ Commit(m)
       /\ handles' = [handles EXCEPT ![h].used = TRUE]
       /\ track' = IF track.stage = 1 /\ track.h = h
                   THEN [track EXCEPT !.stage = 2]
                   ELSE Idle
       /\ UNCHANGED other

----------------------------------------------------------------------------
(* The host framework's steps for a component instance that calls use() or *)
(* usePick(picker): first render, mount effects, re-render, removal and    *)
(* effect cleanups.  React runs the pending effects of an instance before  *)
(* it renders or removes it again.                                         *)

\* the first render of an instance: use returns state; usePick stores the
\* picker in the ref, initialises the state hook with picker(state) and
\* stores that in ref.current.oldState.  props and deps are the arguments of
\* the render: usePick(picker, [d0])
FirstRender(c, kind, picker) ==
    IF kind = "use"
    THEN [NoComp EXCEPT !.kind = "use", !.phase = "rendered", !.shown = state]
    ELSE LET p == Pick(heap, picker, state)
         IN [NoComp EXCEPT !.kind = "pick", !.phase = "rendered",
                           !.picker = picker, !.picked = p, !.old = p,
                           !.shown = p, !.props = picker, !.deps = "d0"]

Mount(c, kind, picker) ==
    /\ comps[c].phase = "new"
    /\ kind = KindOf(c)
    /\ picker = "a" => state.t = "ref"
    /\ comps' = [comps EXCEPT ![c] = FirstRender(c, kind, picker)]
    /\ calls' = <<Event("mount", Cb(kind, c), Undef, Undef)>>
    /\ track' = Idle
    /\ UNCHANGED <<state, heap, subscribers, handles, other>>

\* use's effect: isMounted = true; forceUpdate(); un = subscribe(observer)
useEffect(m, c) ==
    subscribe(forceUpdate([m EXCEPT !.comps[c].isMounted = TRUE], c),
              Cb("use", c))

\* usePick's two effects, in order: un = subscribe(sub), then sub()
usePickEffects(m, c) == sub(subscribe(m, Cb("pick", c)), c)

MountEffect(c) ==
    LET m0 == [Start("effect", Cb(comps[c].kind, c)) EXCEPT
                  !.comps[c].phase = "mounted"]
        m == IF comps[c].kind = "use" THEN useEffect(m0, c)
             ELSE usePickEffects(m0, c)
    IN /\ comps[c].phase = "rendered"
       /\ Commit(m)
       /\ track' = Idle
       /\ UNCHANGED <<handles, other>>

\* a scheduled re-render: use returns state; usePick takes the queued state
\* update, stores the state in ref.current.oldState and returns it
ReRender(c) ==
    IF comps[c].kind = "use"
    THEN [comps[c] EXCEPT !.dirty = FALSE, !.shown = state]
    ELSE LET p == IF comps[c].queued THEN comps[c].queue ELSE comps[c].picked
         IN [comps[c] EXCEPT !.dirty = FALSE, !.queued = FALSE,
                             !.queue = Undef, !.picked = p, !.old = p,
                             !.shown = p]

Render(c) ==
    /\ comps[c].phase = "mounted"
    /\ comps[c].dirty
    /\ ~comps[c].effect
    /\ comps' = [comps EXCEPT ![c] = ReRender(c)]
    /\ calls' = <<Event("render", Cb(comps[c].kind, c), Undef, Undef)>>
    /\ track' = Idle
    /\ UNCHANGED <<state, heap, subscribers, handles, other>>

\* a re-render that keeps the picker of the first render in the ref
ReRenderWithFirstPicker(c, picker, deps) ==
    [ReRender(c) EXCEPT !.props = picker, !.deps = deps,
                        !.effect = (deps # comps[c].deps)]

\* a re-render whose deps effect runs after every render
ReRenderWithEffectAlways(c, picker, deps) ==
    [ReRender(c) EXCEPT !.picker = picker, !.props = picker, !.deps = deps,
                        !.effect = TRUE]

\* a re-render of a usePick instance by its parent, with the arguments
\* (picker, [deps]): ref.current.picker = picker; the effect with [...deps]
\* is scheduled when deps differs from that of the previous render
ReRenderWith(c, picker, deps) ==
    [ReRender(c) EXCEPT !.picker = picker, !.props = picker, !.deps = deps,
                        !.effect = (deps # comps[c].deps)]

RenderWith(c, picker, deps) ==
    /\ comps[c].kind = "pick"
    /\ comps[c].phase = "mounted"
    /\ ~comps[c].effect
    /\ picker = "a" => state.t = "ref"
    /\ comps' = [comps EXCEPT ![c] = ReRenderWith(c, picker, deps)]
    /\ calls' = <<Event("renderWith", Cb("pick", c), Undef, Undef)>>
    /\ track' = Idle
    /\ UNCHANGED <<state, heap, subscribers, handles, other>>

\* the effect with [...deps], after a render that changed deps: sub()
DepsEffect(c) ==
    LET m == sub([Start("depsEffect", Cb("pick", c)) EXCEPT
                     !.comps[c].effect = FALSE], c)
    IN /\ comps[c].phase = "mounted"
       /\ comps[c].effect
       /\ Commit(m)
       /\ track' = Idle
       /\ UNCHANGED <<handles, other>>

\* the instance leaves the tree; its effect cleanups are pending
Unmount(c) ==
    /\ comps[c].phase = "mounted"
    /\ ~comps[c].effect
    /\ comps' = [comps EXCEPT ![c].phase = "unmounting", ![c].dirty = FALSE,
                              ![c].queued = FALSE, ![c].queue = Undef,
                              ![c].picked = Undef, ![c].shown = Undef]
    /\ calls' = <<Event("unmount", Cb(comps[c].kind, c), Undef, Undef)>>
    /\ track' = Idle
    /\ UNCHANGED <<state, heap, subscribers, handles, other>>

\* a cleanup that forgets un()
useCleanupKeepsObserver(m, c) == [m EXCEPT !.comps[c].isMounted = FALSE]

\* use's cleanup: un(); isMounted = false
useCleanup(m, c) ==
    [unsubscribe(m, Cb("use", c)) EXCEPT !.comps[c].isMounted = FALSE]

\* an instance whose cleanups have run: nothing refers to its hooks any more
Gone(kind) == [NoComp EXCEPT !.kind = kind, !.phase = "gone"]

\* usePick's cleanup: un
usePickCleanup(m, c) == unsubscribe(m, Cb("pick", c))

Cleanup(c) ==
    LET m0 == Start("cleanup", Cb(comps[c].kind, c))
        m1 == IF comps[c].kind = "use" THEN useCleanup(m0, c)
              ELSE usePickCleanup(m0, c)
        m == [m1 EXCEPT !.comps[c] = Gone(comps[c].kind)]
    IN /\ comps[c].phase = "unmounting"
       /\ Commit(m)
       /\ track' = Idle
       /\ UNCHANGED <<handles, other>>

(* index.js: B's button, onClick={() => countState.set(count + 1)} with    *)
(* the count of B's last render                                            *)
Click(c) ==
    LET arg == Lit(AddOne(comps[c].shown))
        m == set(Machine, arg)
    IN /\ comps[c].kind = "use"
       /\ comps[c].phase \in {"rendered", "mounted"}
       /\ comps[c].shown.t \in {"num", "nzero", "nan"}
       /\ InRange(arg.v)
       /\ Commit(m)
       /\ TrackSet(m)
       /\ UNCHANGED <<handles, other>>

----------------------------------------------------------------------------
(* A second container, made by another createSharedState call: the same    *)
(* operations, on its own state and subscribers.                           *)

\* operations of the second container that run on the first one's list
OtherMachineSharedList(ev, who) ==
    [state |-> other.state, heap |-> heap, subscribers |-> subscribers,
     comps |-> comps, calls |-> <<Event(ev, who, Undef, Undef)>>]

\* what an operation of the second container reads and writes
OtherMachine(ev, who) ==
    [state |-> other.state, heap |-> heap, subscribers |-> other.subscribers,
     comps |-> comps, calls |-> <<Event(ev, who, Undef, Undef)>>]

CommitOther(m) ==
    /\ other' = [state |-> m.state, subscribers |-> m.subscribers]
    /\ heap' = m.heap
    /\ comps' = m.comps
    /\ calls' = m.calls
    /\ track' = Idle
    /\ UNCHANGED <<state, subscribers, handles>>

OtherArgs ==
    {Lit(v) : v \in {x \in {Num(i) : i \in 0..MaxNum}
                            \cup {Ref(a) : a \in 1..Len(heap)} :
                        SameType(x, other.state)}}

OtherSet(arg) == CommitOther(set(OtherMachine("otherSet", NoOne), arg))

OtherUpdate(input) ==
    /\ Len(heap) < MaxHeap
    /\ other.state.t = "ref"
    /\ CommitOther(update(OtherMachine("otherUpdate", NoOne), input))

OtherSubscribe(cb) ==
    /\ Len(other.subscribers) < MaxHandles
    /\ CommitOther(subscribe(OtherMachine("otherSubscribe", cb), cb))

OtherUnsubscribe(cb) ==
    CommitOther(unsubscribe(OtherMachine("otherUnsubscribe", cb), cb))

(* The value: callers that set and update every kind of value, and        *)
(* subscribe callbacks.                                                    *)
Next ==
    \/ \E arg \in SetArgs : Set(arg)
    \/ \E input \in Partials : Update(input)
    \/ \E cb \in Plain : Subscribe(cb, MaxHandles)

Spec == Init /\ [][Next]_vars

(* The observer list: subscribe, unsubscribe and the closures that         *)
(* subscribe returns, on a counter that callers set.                       *)
NextSubs ==
    \/ \E arg \in SetArgsUI : Set(arg)
    \/ \E cb \in Plain : Subscribe(cb, MaxEntries)
    \/ \E cb \in Plain : Unsubscribe(cb)
    \/ \E h \in 1..Len(handles) : CallUn(h)

InitSubs == InitWith({Num(0)})

SpecSubs == InitSubs /\ [][NextSubs]_vars

(* The reactive surface: components that call use and usePick, beside      *)
(* callers that set, update and subscribe.                                 *)
NextUI ==
    \/ \E arg \in SetArgsUI : Set(arg)
    \/ \E input \in Partials : Update(input)
    \/ \E c \in Comps : Mount(c, "use", "")
    \/ \E c \in Comps, picker \in Pickers : Mount(c, "pick", picker)
    \/ \E c \in Comps : MountEffect(c)
    \/ \E c \in Comps : Render(c)
    \/ \E c \in Comps : Unmount(c)
    \/ \E c \in Comps : Cleanup(c)
    \/ \E c \in Comps : Click(c)

InitUI == InitWith({Num(0), Ref(1)})

SpecUI == InitUI /\ [][NextUI]_vars

(* Callbacks that call the container from inside a notification, beside   *)
(* plain ones and a component that calls use.                              *)
UseComps == {c \in Comps : KindOf(c) = "use"}

NextRe ==
    \/ \E arg \in SetArgsUI : Set(arg)
    \/ \E input \in Partials : Update(input)
    \/ \E cb \in Plain \cup Reentrant : Subscribe(cb, MaxHandles)
    \/ \E c \in UseComps : Mount(c, "use", "")
    \/ \E c \in UseComps : MountEffect(c)
    \/ \E c \in UseComps : Render(c)
    \/ \E c \in UseComps : Unmount(c)
    \/ \E c \in UseComps : Cleanup(c)

SpecRe == InitUI /\ [][NextRe]_vars

(* shallowEqual on two values: primitives, null, and two objects among    *)
(* plain objects and arrays whose fields hold primitives or one of two     *)
(* empty objects.                                                          *)
EqFields == {Num(0), NegZero, NaN, Ref(3), Ref(4)}
EqObjects ==
    {EmptyObj, ObjAB(Num(0), Num(0)), ObjAB(Num(0), NaN),
     [k \in {HiddenLength} |-> Num(0)]}
        \cup {ObjOf("a", v) : v \in EqFields}
        \cup {ObjOf("length", v) : v \in {Num(0), Num(1)}}
        \cup {ArrayOf(v) : v \in {Undef, Num(0), Ref(3)}}
EqValues == {Num(0), NegZero, NaN, Null, Undef, Ref(1), Ref(2)}

InitEq ==
    /\ state = Num(0)
    /\ heap \in {<<A, B, EmptyObj, EmptyObj>> : A \in EqObjects, B \in EqObjects}
    /\ subscribers = <<>>
    /\ comps = [c \in Comps |-> NoComp]
    /\ handles = <<>>
    /\ calls = <<Event("create", NoOne, Undef, state)>>
    /\ track = Idle
    /\ other = Container(Num(0))

\* shallowEqual(objA, objB), its result recorded with its arguments
Compare(objA, objB) ==
    /\ calls' = <<Event(IF shallowEqual(heap, objA, objB) THEN "true" ELSE "false",
                        NoOne, objA, objB)>>
    /\ UNCHANGED <<state, heap, subscribers, comps, handles, track, other>>

NextEq == \E objA \in EqValues, objB \in EqValues : Compare(objA, objB)

SpecEq == InitEq /\ [][NextEq]_vars

(* Callbacks that call set and get from inside a notification, on a        *)
(* counter that callers set.                                               *)
NextNest ==
    \/ \E arg \in SetArgsUI : Set(arg)
    \/ \E cb \in Setters \cup Readers : Subscribe(cb, MaxHandles)
    \/ \E cb \in Setters \cup Readers : Unsubscribe(cb)

SpecNest == InitSubs /\ [][NextNest]_vars

(* Two containers, and callers that subscribe the same callbacks to both.  *)
\* the callbacks that a caller subscribes to both containers
Shared == {Cb("plain", "p1")}

\* the partial that callers merge into either of the two containers
PartialsTwo == {ObjOf("b", Num(0))}

NextTwo ==
    \/ \E arg \in SetArgsUI : Set(arg)
    \/ \E input \in PartialsTwo : Update(input)
    \/ \E cb \in Shared : Subscribe(cb, MaxHandles)
    \/ \E cb \in Shared : Unsubscribe(cb)
    \/ \E arg \in OtherArgs : OtherSet(arg)
    \/ \E input \in PartialsTwo : OtherUpdate(input)
    \/ \E cb \in Plain : OtherSubscribe(cb)
    \/ \E cb \in Plain : OtherUnsubscribe(cb)

InitTwo ==
    /\ state \in {Num(0), Ref(1)}
    /\ heap = <<InitialObject>>
    /\ subscribers = <<>>
    /\ comps = [c \in Comps |-> NoComp]
    /\ handles = <<>>
    /\ calls = <<Event("create", NoOne, Undef, state)>>
    /\ track = Idle
    /\ other = Container(state)

SpecTwo == InitTwo /\ [][NextTwo]_vars

(* A component that calls usePick(picker, deps) and a parent that renders  *)
(* it again with other arguments, beside callers that set and update.      *)
PickComps == {c \in Comps : KindOf(c) = "pick"}

NextPick ==
    \/ \E arg \in SetArgsUI : Set(arg)
    \/ \E input \in Partials : Update(input)
    \/ \E c \in PickComps, picker \in Pickers : Mount(c, "pick", picker)
    \/ \E c \in PickComps : MountEffect(c)
    \/ \E c \in PickComps : Render(c)
    \/ \E c \in PickComps, picker \in Pickers, deps \in Deps :
            RenderWith(c, picker, deps)
    \/ \E c \in PickComps : DepsEffect(c)
    \/ \E c \in PickComps : Unmount(c)
    \/ \E c \in PickComps : Cleanup(c)

SpecPick == InitUI /\ [][NextPick]_vars

----------------------------------------------------------------------------
(* Properties of the imperative surface.                                   *)

\* the candidate that set computes from its argument, the value s and heap h
Candidate(arg, s, h) ==
    IF ~arg.fn THEN arg.v
    ELSE IF arg.f = "id" THEN s
    ELSE IF arg.f = "inc" THEN AddOne(s)
    ELSE Ref(Len(h) + 1)

\* the value after a call with candidate c on value p
Accepted(p, c) == IF SameValue(p, c) THEN p ELSE c

\* the observer invocations among the events of an operation
CallsOf(log) == SelectSeq(log, LAMBDA e : e.ev = "call")

\* one invocation per entry of list s, in order, with the arguments (p, y)
Notifications(s, p, y) == [i \in 1..Len(s) |-> Event("call", s[i], p, y)]

\* C1: get() returns the initial value before any call and, after each set
\* or update call, the candidate of that call if it was not SameValue-equal
\* to the value then current, else the value it returned before; no other
\* operation changes what get() returns.
C1_GetReturnsLastAccepted ==
    /\ (calls[1].ev = "create" => state = calls[1].next)
    /\ [][/\ \A arg \in SetArgs :
                Set(arg) => state' = Accepted(state, Candidate(arg, state, heap))
          /\ \A input \in Partials :
                Update(input) =>
                    state' = Accepted(state, Candidate(MergeFn(input), state, heap))
          /\ calls'[1].ev \notin {"set", "update"} => state' = state]_vars

\* a set(-0) on +0 was accepted after get() had returned +0
C1_Witness ==
    /\ calls[1] = Event("set", Cb("literal", ""), Num(0), NegZero)
    /\ state = NegZero

\* C2: a set call whose candidate is SameValue-equal to the current value
\* changes neither the value nor the observer list and invokes no observer.
C2_EqualSetIsNoOp ==
    [][\A arg \in SetArgs :
          (Set(arg) /\ SameValue(state, Candidate(arg, state, heap))) =>
              /\ state' = state
              /\ subscribers' = subscribers
              /\ comps' = comps
              /\ CallsOf(calls') = <<>>]_vars

\* set(x => x) was called on NaN with two observers subscribed
C2_Witness ==
    /\ calls = <<Event("set", Cb("updater", "id"), NaN, NaN)>>
    /\ state = NaN
    /\ Len(subscribers) = 2

\* no entry of list s is a callback that calls the container when invoked
NoReentry(s) == \A i \in 1..Len(s) : s[i] \notin Reentrant \cup Setters

\* C3: with observers that do not call the container, a set(y) with y not
\* SameValue-equal to the current value p invokes every entry of the observer
\* list once, in subscription order, each with (p, y), within the call.
C3_NotifiesEachEntryInOrder ==
    [][\A arg \in SetArgs :
          (Set(arg) /\ ~SameValue(state, Candidate(arg, state, heap))
                /\ NoReentry(subscribers)) =>
              /\ CallsOf(calls') =
                    Notifications(subscribers, state, Candidate(arg, state, heap))
              /\ subscribers' = subscribers]_vars

\* an accepted set has invoked p1, p2 in this order (p1 subscribed first)
C3_Witness ==
    /\ calls[1].ev = "set"
    /\ subscribers = <<Cb("plain", "p1"), Cb("plain", "p2")>>
    /\ CallsOf(calls) = Notifications(subscribers, calls[1].prev, state)
    /\ calls[1].prev # state

\* C4, as claimed: every update(partial) invokes every entry of the observer
\* list once, also when partial is empty or changes no field.
C4_UpdateAlwaysNotifies ==
    [][\A input \in Partials :
          Update(input) =>
              /\ Len(CallsOf(calls')) = Len(subscribers)
              /\ CallsOf(calls') = Notifications(subscribers, state, state')
              /\ state' # state]_vars

\* C5: after update(partial) on object c, get() returns a reference that no
\* object had before, to an object whose keys are the keys of c and of
\* partial, with partial's value under partial's keys and c's value under
\* the others; c and every other object are as before.
C5_UpdateMergesIntoNewObject ==
    [][\A input \in Partials :
          Update(input) =>
              /\ state'.t = "ref"
              /\ state' # state
              /\ state'.n \notin 1..Len(heap)
              /\ DOMAIN heap'[state'.n] = (DOMAIN heap[state.n]) \cup (DOMAIN input)
              /\ \A k \in DOMAIN input : heap'[state'.n][k] = input[k]
              /\ \A k \in (DOMAIN heap[state.n]) \ (DOMAIN input) :
                    heap'[state'.n][k] = heap[state.n][k]
              /\ \A a \in 1..Len(heap) : heap'[a] = heap[a]]_vars

\* update({b: 0}) on {a: 1, b: 2} gave {a: 1, b: 0} at a new address
C5_Witness ==
    /\ calls[1].ev = "update"
    /\ calls[2].prev = Ref(1)
    /\ state = Ref(2)
    /\ heap[1] = InitialObject
    /\ heap[2] = ObjAB(Num(1), Num(0))

----------------------------------------------------------------------------
(* Properties of the observer list.                                        *)

\* the invocations of callback cb among the events of an operation
CallsTo(log, cb) == SelectSeq(log, LAMBDA e : e.ev = "call" /\ e.who = cb)

C7_SecondUnIsNoOp ==
    [][\A h \in 1..Len(handles) :
          (CallUn(h) /\ handles[h].used) => subscribers' = subscribers]_vars

\* list s without its first entry equal to x, or s when it has none
WithoutFirst(s, t, x) ==
    IF \A i \in 1..Len(s) : s[i] # x THEN t = s
    ELSE \E i \in 1..Len(s) :
            /\ s[i] = x
            /\ \A j \in 1..(i - 1) : s[j] # x
            /\ Len(t) = Len(s) - 1
            /\ \A j \in 1..Len(t) : t[j] = IF j < i THEN s[j] ELSE s[j + 1]

\* C8: unsubscribe(observer) removes the first entry equal to observer and
\* nothing else: later entries of the same observer stay, the other entries
\* keep their order, the value is unchanged and no observer is invoked; the
\* list is unchanged when observer is not in it.
C8_UnsubscribeRemovesFirstOnly ==
    [][\A cb \in Plain :
          Unsubscribe(cb) =>
              /\ WithoutFirst(subscribers, subscribers', cb)
              /\ state' = state
              /\ heap' = heap
              /\ comps' = comps
              /\ CallsOf(calls') = <<>>]_vars

\* unsubscribe(p1) on the list p1, p2, p1 has left p2, p1
C8_Witness ==
    /\ calls = <<Event("unsubscribe", Cb("plain", "p1"), Undef, Undef)>>
    /\ subscribers = <<Cb("plain", "p2"), Cb("plain", "p1")>>
    /\ Len(handles) = 3
    /\ handles[1].cb = Cb("plain", "p1")
    /\ handles[2].cb = Cb("plain", "p2")
    /\ \A h \in 1..3 : ~handles[h].used

----------------------------------------------------------------------------
(* Properties of the reactive surface.                                     *)

\* no first-render effect and no re-render is pending
Settled == \A c \in Comps : comps[c].phase # "rendered" /\ ~comps[c].dirty

\* the forced re-renders of instance c among the events of an operation
ForcesOf(log, c) == SelectSeq(log, LAMBDA e : e.ev = "force" /\ e.who.id = c)

\* C9, as claimed: for a component that calls use(), every render returns
\* the value current at that render; the mount effect forces one re-render
\* and appends one observer; every change of the value while the component is
\* mounted schedules a re-render; and once no render or effect is pending, the
\* value that the last render of every mounted use() component returned
\* equals get().
C9_UseFollowsContainer ==
    /\ [](Settled =>
            \A c \in Comps :
                (comps[c].kind = "use" /\ comps[c].phase = "mounted") =>
                    SameValue(comps[c].shown, state))
    /\ [][\A c \in Comps :
            /\ Mount(c, "use", "") => comps'[c].shown = state
            /\ (Render(c) /\ comps[c].kind = "use") => comps'[c].shown = state
            /\ (MountEffect(c) /\ comps[c].kind = "use") =>
                    /\ comps'[c].dirty
                    /\ Len(ForcesOf(calls', c)) = 1
                    /\ subscribers' = Append(subscribers, Cb("use", c))
            /\ (comps[c].kind = "use" /\ comps[c].phase = "mounted"
                    /\ state' # state) => comps'[c].dirty]_vars

\* the events of an operation that reach instance c: a call of its observer,
\* a forced re-render, a state update
Reaching(log, c) ==
    SelectSeq(log, LAMBDA e : e.ev \in {"call", "force", "setPicked"} /\ e.who.id = c)

\* C10: once all mount effects and cleanups have run, the observer list holds
\* one entry for the binding of every mounted instance and none of any other
\* instance; after an instance's cleanup, no operation invokes its observer,
\* forces a re-render of it or updates its state.
C10_OneEntryPerMountedBinding ==
    /\ (\A c \in Comps : comps[c].phase \notin {"rendered", "unmounting"}) =>
          /\ \A c \in Comps :
                Count(subscribers, Cb(KindOf(c), c)) =
                    IF comps[c].phase = "mounted" THEN 1 ELSE 0
          /\ \A i \in 1..Len(subscribers) :
                subscribers[i].id \in Comps =>
                    subscribers[i].k = KindOf(subscribers[i].id)
    /\ \A c \in Comps : comps[c].phase = "gone" => Reaching(calls, c) = <<>>

\* c1 was mounted and removed and its cleanup has run; an update then
\* notified the one observer left, of the mounted c2
C10_Witness ==
    /\ comps["c1"].phase = "gone"
    /\ comps["c2"].phase = "mounted"
    /\ subscribers = <<Cb("pick", "c2")>>
    /\ calls[1].ev = "update"
    /\ Len(CallsOf(calls)) = 1

----------------------------------------------------------------------------
(* Properties of usePick.                                                  *)

\* the state updates of instance c among the events of an operation
UpdatesOf(log, c) ==
    SelectSeq(log, LAMBDA e : e.ev = "setPicked" /\ e.who.id = c)

\* instance c calls usePick and its mount effects have run
PickMounted(c) == comps[c].kind = "pick" /\ comps[c].phase = "mounted"

\* C11, as claimed: for a mounted usePick(picker) component, a change of the
\* value from s1 to s2 schedules no re-render when picker(s1) is shallow-equal
\* to picker(s2), and else schedules a re-render whose result is picker(s2).
C11_RerenderIffProjectionDiffers ==
    [][\A c \in Comps :
          (PickMounted(c) /\ state' # state) =>
              LET p1 == Pick(heap', comps[c].picker, state)
                  p2 == Pick(heap', comps[c].picker, state')
              IN IF shallowEqual(heap', p1, p2)
                 THEN UpdatesOf(calls', c) = <<>> /\ comps'[c] = comps[c]
                 ELSE /\ comps'[c].dirty
                      /\ comps'[c].queued
                      /\ comps'[c].queue = p2]_vars

\* the same for a component whose last render returned picker(s1) and that
\* has no render pending
PickFollowsSingleChange ==
    [][\A c \in Comps :
          (PickMounted(c) /\ state' # state /\ ~comps[c].dirty
                /\ shallowEqual(heap, comps[c].shown,
                                Pick(heap, comps[c].picker, state))) =>
              LET p1 == Pick(heap', comps[c].picker, state)
                  p2 == Pick(heap', comps[c].picker, state')
              IN IF shallowEqual(heap', p1, p2)
                 THEN UpdatesOf(calls', c) = <<>> /\ comps'[c] = comps[c]
                 ELSE /\ comps'[c].dirty
                      /\ comps'[c].queued
                      /\ comps'[c].queue = p2]_vars

\* C12: the observer that usePick subscribes is in the list once while the
\* component is mounted, renders add no entry, and on every change of the value
\* it is invoked once and compares the stored projection with the picker of
\* the most recent render applied to the value that get() returns then: a
\* state update with that projection is queued when they are not shallow-equal.
C12_ObserverUsesLatestPicker ==
    /\ [](\A c \in Comps :
            PickMounted(c) => Count(subscribers, Cb("pick", c)) = 1)
    /\ [][\A c \in Comps :
            /\ (calls'[1].ev \in {"render", "renderWith", "depsEffect"}) =>
                    subscribers' = subscribers
            /\ (PickMounted(c) /\ state' # state) =>
                    LET p == Pick(heap', comps[c].props, state')
                    IN /\ Len(CallsTo(calls', Cb("pick", c))) = 1
                       /\ IF shallowEqual(heap', comps[c].old, p)
                          THEN /\ UpdatesOf(calls', c) = <<>>
                               /\ comps'[c] = comps[c]
                          ELSE /\ UpdatesOf(calls', c) =
                                    <<Event("setPicked", Cb("pick", c), Undef, p)>>
                               /\ comps'[c].queued
                               /\ comps'[c].queue = p]_vars

\* the last render got the picker s => s and returned 1, the projection of an
\* earlier picker s => s.a; an update then queued the new object itself
C12_Witness ==
    /\ calls[1].ev = "update"
    /\ PickMounted("c2")
    /\ comps["c2"].props = "self"
    /\ comps["c2"].old = Num(1)
    /\ state = Ref(2)
    /\ comps["c2"].queued
    /\ comps["c2"].queue = Ref(2)

\* C13: for a mounted usePick component, a render whose deps differs from
\* that of the previous render schedules the compare step to run after it
\* and a render with the same deps does not; the step runs without a change of
\* the value: when the latest picker applied to the value is not shallow-equal
\* to the stored projection it queues that projection and a re-render, which
\* then stores and returns it, and else it changes nothing.
C13_DepsChangeRerunsStep ==
    [][\A c \in Comps :
          /\ \A picker \in Pickers, deps \in Deps :
                RenderWith(c, picker, deps) =>
                    /\ comps'[c].effect = (deps # comps[c].deps)
                    /\ UpdatesOf(calls', c) = <<>>
          /\ (Render(c) /\ comps[c].kind = "pick") =>
                /\ ~comps'[c].effect
                /\ comps[c].queued => /\ comps'[c].picked = comps[c].queue
                                      /\ comps'[c].shown = comps[c].queue
          /\ DepsEffect(c) =>
                LET p == Pick(heap, comps[c].props, state)
                IN /\ state' = state
                   /\ heap' = heap
                   /\ subscribers' = subscribers
                   /\ IF shallowEqual(heap, comps[c].old, p)
                      THEN comps'[c] = [comps[c] EXCEPT !.effect = FALSE]
                      ELSE /\ comps'[c].dirty
                           /\ comps'[c].queued
                           /\ comps'[c].queue = p
                           /\ ~comps'[c].effect]_vars

\* after a render with a new picker and new deps the step has run: the stored
\* projection 1 (of s => s.a) differed from the object (of s => s), which is
\* queued with a re-render, and the value did not change
C13_Witness ==
    /\ calls[1].ev = "depsEffect"
    /\ UpdatesOf(calls, "c2") # <<>>
    /\ comps["c2"].props = "self"
    /\ comps["c2"].old = Num(1)
    /\ comps["c2"].dirty
    /\ comps["c2"].queue = state
    /\ state = Ref(1)

----------------------------------------------------------------------------
(* Properties of two containers.                                           *)

\* a step is an operation of the first container
OnFirst ==
    \/ \E arg \in SetArgsUI : Set(arg)
    \/ \E input \in PartialsTwo : Update(input)
    \/ \E cb \in Shared : Subscribe(cb, MaxHandles) \/ Unsubscribe(cb)

\* a step is an operation of the second container
OnOther ==
    \/ \E arg \in OtherArgs : OtherSet(arg)
    \/ \E input \in PartialsTwo : OtherUpdate(input)
    \/ \E cb \in Plain : OtherSubscribe(cb) \/ OtherUnsubscribe(cb)

\* C14: set, update, subscribe and unsubscribe on one of two containers leave
\* the other container's value and observer list as they were, and invoke a
\* callback once per entry it has in the list of the container operated on
\* when the value changed, and no callback otherwise: never for an entry of
\* the other container's list.
C14_ContainersAreIndependent ==
    [][/\ OnFirst =>
            /\ other' = other
            /\ \A cb \in Plain :
                  Len(CallsTo(calls', cb)) =
                      IF state' # state THEN Count(subscribers, cb) ELSE 0
       /\ OnOther =>
            /\ state' = state
            /\ subscribers' = subscribers
            /\ \A cb \in Plain :
                  Len(CallsTo(calls', cb)) =
                      IF other'.state # other.state
                      THEN Count(other.subscribers, cb) ELSE 0]_vars

\* p1 is subscribed to both containers and p2 to the second only; a set on
\* the first has invoked p1 once and not p2, and the second keeps its value
C14_Witness ==
    /\ calls[1].ev = "set"
    /\ state = Num(1)
    /\ subscribers = <<Cb("plain", "p1")>>
    /\ other.subscribers = <<Cb("plain", "p1"), Cb("plain", "p2")>>
    /\ other.state = Num(0)
    /\ Len(CallsOf(calls)) = 1
    /\ CallsOf(calls)[1].who = Cb("plain", "p1")

----------------------------------------------------------------------------
(* Properties of the equality tests.                                       *)

\* the set call of a step was rejected: the value is as before and no
\* observer was invoked
Rejected == state' = state /\ CallsOf(calls') = <<>>

\* C15: set rejects its candidate by SameValue: set(NaN) on NaN is rejected
\* and notifies no one, set(-0) on +0 and set(+0) on -0 are accepted and
\* notify every observer, and a candidate is rejected exactly when it is the
\* same primitive or the same reference as the current value.
C15_SetComparesBySameValue ==
    [][\A arg \in SetArgs :
          (Set(arg) /\ ~arg.fn) =>
              /\ (arg.v = NaN /\ state = NaN) => Rejected
              /\ (IsZero(arg.v) /\ IsZero(state) /\ arg.v # state) =>
                    /\ state' = arg.v
                    /\ CallsOf(calls') = Notifications(subscribers, state, arg.v)
              /\ Rejected <=> SameValue(state, arg.v)
              /\ ~Rejected => state' = arg.v]_vars

\* set(+0) on -0 was accepted and notified the one observer with (-0, +0)
C15_Witness ==
    /\ calls = <<Event("set", Cb("literal", ""), NegZero, Num(0)),
                 Event("call", Cb("plain", "p1"), NegZero, Num(0))>>
    /\ state = Num(0)
    /\ subscribers = <<Cb("plain", "p1")>>

----------------------------------------------------------------------------
(* Properties of notifications that call the container.                    *)

\* the set calls, accepted or not, among the events of an operation
SetsOf(log) == SelectSeq(log, LAMBDA e : e.ev = "set")

\* C16, as claimed: when an observer calls set from inside its callback,
\* every notification (p, n) is the pair of an accepted set call of the
\* operation, p the value before that call and n the value it stored, and for
\* each observer the first argument of a notification is the second argument
\* of the notification it received before.
C16_NestedSetKeepsPairs ==
    [][\A arg \in SetArgsUI :
          Set(arg) =>
              /\ \A i \in 1..Len(CallsOf(calls')) :
                    \E j \in 1..Len(SetsOf(calls')) :
                        /\ SetsOf(calls')[j].prev = CallsOf(calls')[i].prev
                        /\ SetsOf(calls')[j].next = CallsOf(calls')[i].next
                        /\ SetsOf(calls')[j].prev # SetsOf(calls')[j].next
              /\ \A cb \in Setters \cup Readers :
                    \A i \in 2..Len(CallsTo(calls', cb)) :
                        CallsTo(calls', cb)[i].prev =
                            CallsTo(calls', cb)[i - 1].next]_vars

\* the entries of list s as a set
Range(s) == {s[i] : i \in 1..Len(s)}

\* the callbacks invoked by an operation, in order
Invoked(log) == [i \in 1..Len(CallsOf(log)) |-> CallsOf(log)[i].who]

\* C17, as claimed: when callbacks unsubscribe during a notification pass,
\* the observers that are still subscribed at the end of the pass have each
\* been invoked once in that pass, in subscription order: none is skipped.
C17_NoSubscribedObserverSkipped ==
    [][((\E arg \in SetArgsUI : Set(arg)) \/ (\E input \in Partials : Update(input)))
          /\ state' # state =>
              SelectSeq(Invoked(calls'), LAMBDA cb : cb \in Range(subscribers'))
                  = subscribers']_vars

\* C19: in a set call that no observer re-enters, get() called inside an
\* observer returns the second argument of that invocation, which is the
\* stored candidate and is not the previous value.
C19_StoredBeforeNotified ==
    [][\A arg \in SetArgsUI :
          (Set(arg) /\ NoReentry(subscribers)) =>
              \A i \in 1..Len(calls') :
                  /\ calls'[i].ev = "get" =>
                        /\ calls'[i - 1].ev = "call"
                        /\ calls'[i - 1].who = calls'[i].who
                        /\ calls'[i].next = calls'[i - 1].next
                        /\ calls'[i].next = arg.v
                        /\ calls'[i].next # calls'[i - 1].prev
                  /\ (calls'[i].ev = "call" /\ calls'[i].who \in Readers) =>
                        /\ i < Len(calls')
                        /\ calls'[i + 1].ev = "get"]_vars

\* set(1) on 0 invoked the reader twice, once per entry, and get() returned 1
\* in both invocations
C19_Witness ==
    /\ subscribers = <<Cb("reader", "g1"), Cb("reader", "g1")>>
    /\ calls = <<Event("set", Cb("literal", ""), Num(0), Num(1)),
                 Event("call", Cb("reader", "g1"), Num(0), Num(1)),
                 Event("get", Cb("reader", "g1"), Undef, Num(1)),
                 Event("call", Cb("reader", "g1"), Num(0), Num(1)),
                 Event("get", Cb("reader", "g1"), Undef, Num(1))>>

----------------------------------------------------------------------------
(* Properties of usePick under several changes between renders.            *)

\* C18, as claimed: for a mounted usePick component whose picker and deps do
\* not change, once no render and no effect of it is pending, the projection
\* that its last render returned is shallow-equal to picker(get()).
C18_PickSettlesOnCurrent ==
    \A c \in Comps :
        (PickMounted(c) /\ ~comps[c].dirty /\ ~comps[c].effect) =>
            shallowEqual(heap, comps[c].shown,
                         Pick(heap, comps[c].picker, get(Machine)))

----------------------------------------------------------------------------
(* Properties of shallowEqual.                                             *)

\* a and b are SameValue-equal, or are objects with the same own keys and
\* SameValue-equal values under every key; the own keys are read as the
\* enumerable ones, those that Object.keys lists
ShallowSame(h, a, b) ==
    \/ SameValue(a, b)
    \/ /\ a.t = "ref"
       /\ b.t = "ref"
       /\ ObjectKeys(h[a.n]) = ObjectKeys(h[b.n])
       /\ \A k \in ObjectKeys(h[a.n]) :
             SameValue(Prop(h[a.n], k), Prop(h[b.n], k))

\* C20, as claimed: shallowEqual(a, b) is true exactly when a and b are
\* SameValue-equal or are non-null objects with the same own keys and
\* SameValue-equal values under every key, without looking into nested
\* objects; it is reflexive and symmetric.
C20_ShallowEqualIsKeywiseSameValue ==
    calls[1].ev \in {"true", "false"} =>
        LET a == calls[1].prev
            b == calls[1].next
        IN /\ (calls[1].ev = "true") <=> ShallowSame(heap, a, b)
           /\ shallowEqual(heap, a, a)
           /\ shallowEqual(heap, a, b) <=> shallowEqual(heap, b, a)

\* every own property of the object at reference x is enumerable
AllEnumerable(h, x) == x.t = "ref" => HiddenLength \notin DOMAIN h[x.n]

\* the same for operands whose own properties are all enumerable
ShallowEqualOnEnumerable ==
    (calls[1].ev \in {"true", "false"}
        /\ AllEnumerable(heap, calls[1].prev)
        /\ AllEnumerable(heap, calls[1].next)) =>
        LET a == calls[1].prev
            b == calls[1].next
        IN /\ (calls[1].ev = "true") <=> ShallowSame(heap, a, b)
           /\ shallowEqual(heap, a, a)
           /\ shallowEqual(heap, a, b) <=> shallowEqual(heap, b, a)

\* shallowEqual({length: 1}, [undefined]) has returned true
AsymmetricPair ==
    /\ heap[1] = ObjOf("length", Num(1))
    /\ heap[2] = ArrayOf(Undef)
    /\ calls = <<Event("true", NoOne, Ref(1), Ref(2))>>
    /\ ~shallowEqual(heap, Ref(2), Ref(1))

====
